---- MODULE Spec2Model ----
(***************************************************************************)
(* Model of the /generate route of app.py (generate_image): job submit,    *)
(* status polling with timeout, output extraction, decoding into the       *)
(* artifact file, blob upload, and the mapping of exceptions to responses; *)
(* of the /convert_html_to_pdf route; of two /generate requests running    *)
(* concurrently (SpecConc); of the metrics recorded by the MCP routes      *)
(* (SpecMetrics); of the integration test of the two MCP surfaces          *)
(* (SpecInteg); of the request ids the routes accept (SpecGuid); and of    *)
(* GET /health (SpecHealth). SpecLive is Spec under weak fairness.         *)
(* Python strings are tuples of one-character strings, so that startswith, *)
(* split and base64 decoding are computed and not assumed.                 *)
(***************************************************************************)
EXTENDS Integers, Sequences, FiniteSets, TLC

\* ------------------------------------------------------------------ bounds
\* longest duration of one external HTTP call, in time units
MaxCallTime == 1
\* reading of the clock when the request arrives
StartTime == 3
\* largest number of chunks a streamed image body is delivered in
MaxChunks == 2

\* ------------------------------------------------------- program constants
\* app.py:174  "time.time() - t_start > 120"
MAX_WAIT == 120
\* app.py:176  "time.sleep(2)"
POLL_INTERVAL == 2

\* ----------------------------------------------------------------- strings
DataPrefix == <<"d","a","t","a",":","i","m","a","g","e">>
HttpPrefix == <<"h","t","t","p">>
DataUri == <<"d","a","t","a",":","i","m","a","g","e","/","p","n","g",";","b","a","s","e","6","4",",","A","A","A","A">>
DataUriBad == <<"d","a","t","a",":","i","m","a","g","e","/","p","n","g",";","b","a","s","e","6","4",",","A","A","A","A","A">>
DataUriPad == <<"d","a","t","a",":","i","m","a","g","e","/","p","n","g",";","b","a","s","e","6","4",",","T","W","E","=">>
HttpUrl == <<"h","t","t","p",":","/","/","h","/","i">>
OtherUrl == <<"f","t","p",":","/","/","h","/","i">>
EmptyStr == << >>
B64Alphabet == <<"A","B","C","D","E","F","G","H","I","J","K","L","M","N","O","P","Q","R","S","T","U","V","W","X","Y","Z","a","b","c","d","e","f","g","h","i","j","k","l","m","n","o","p","q","r","s","t","u","v","w","x","y","z","0","1","2","3","4","5","6","7","8","9","+","/">>

\* str.startswith(prefix)
StartsWith(s, prefix) ==
    /\ Len(s) >= Len(prefix)
    /\ SubSeq(s, 1, Len(prefix)) = prefix

\* position of the first "," of s, 0 when there is none
FirstComma(s) ==
    IF \E i \in 1..Len(s) : s[i] = ","
    THEN CHOOSE i \in 1..Len(s) : s[i] = "," /\ \A j \in 1..(i - 1) : s[j] # ","
    ELSE 0

\* the payload taken without the split
SplitLast_m(s) == s

\* image_url.split(",", 1)[-1] : what follows the first comma, the whole
\* string when it has no comma
SplitLast(s) ==
    IF FirstComma(s) = 0 THEN s ELSE SubSeq(s, FirstComma(s) + 1, Len(s))

\* value of a base64 digit, 64 for a character outside the alphabet
B64Value(ch) ==
    IF \E k \in 1..64 : B64Alphabet[k] = ch
    THEN (CHOOSE k \in 1..64 : B64Alphabet[k] = ch) - 1
    ELSE 64

RECURSIVE B64Run(_, _, _, _, _, _)
\* binascii.a2b_base64 in non-strict mode, as base64.b64decode calls it:
\* characters outside the alphabet are skipped, a complete pad sequence ends
\* the input, an incomplete last quad is an error.
B64Run(s, i, quad_pos, leftchar, pads, out) ==
    IF i > Len(s)
    THEN [ok |-> quad_pos = 0, bytes |-> IF quad_pos = 0 THEN out ELSE << >>]
    ELSE IF s[i] = "="
    THEN IF quad_pos >= 2 /\ quad_pos + pads + 1 >= 4
         THEN [ok |-> TRUE, bytes |-> out]
         ELSE B64Run(s, i + 1, quad_pos, leftchar,
                     IF quad_pos >= 2 THEN pads + 1 ELSE pads, out)
    ELSE IF B64Value(s[i]) = 64
    THEN B64Run(s, i + 1, quad_pos, leftchar, pads, out)
    ELSE LET v == B64Value(s[i]) IN
         CASE quad_pos = 0 -> B64Run(s, i + 1, 1, v, 0, out)
           [] quad_pos = 1 ->
                B64Run(s, i + 1, 2, v % 16, 0,
                       Append(out, (leftchar * 4 + v \div 16) % 256))
           [] quad_pos = 2 ->
                B64Run(s, i + 1, 3, v % 4, 0,
                       Append(out, (leftchar * 16 + v \div 4) % 256))
           [] OTHER ->
                B64Run(s, i + 1, 0, 0, 0,
                       Append(out, (leftchar * 64 + v) % 256))

\* base64.b64decode(base64_data): [ok, bytes]; not ok stands for binascii.Error
b64decode(s) == B64Run(s, 1, 0, 0, 0, << >>)

\* ------------------------------------------------------------- JSON values
\* A JSON value: t is its Python type after json(), s the characters of a
\* string. "absent" is a key that is not in the object (dict.get gives None).
Absent == [t |-> "absent", s |-> EmptyStr]
Null == [t |-> "null", s |-> EmptyStr]
Num == [t |-> "num", s |-> EmptyStr]
Str(chars) == [t |-> "str", s |-> chars]

\* the strings a job output is made of
UrlStrings == {DataUri, DataUriPad, DataUriBad, HttpUrl, OtherUrl, EmptyStr}

\* values of the object field image_url: missing, null, a number, a string
FieldValues == {Absent, Null, Num, Str(EmptyStr), Str(HttpUrl), Str(DataUri)}
\* values of the object field image
ImageValues == {Absent, Str(HttpUrl), Str(DataUri)}

\* an object with the two fields the code reads
Dict(iu, im) == [t |-> "dict", s |-> EmptyStr, image_url |-> iu, image |-> im]

\* a list, by its length and its first element
List(n, first) == [t |-> "list", s |-> EmptyStr, len |-> n, first |-> first]

\* the values of the "output" key of a status response
Outputs ==
    {Absent, Null, Num}
      \cup {Str(c) : c \in UrlStrings}
      \cup {Dict(iu, im) : iu \in FieldValues, im \in ImageValues}
      \cup {List(0, Absent)}
      \cup {List(1, f) : f \in {Num, Str(HttpUrl), Str(EmptyStr)}}

\* Python truth value of a JSON value
Truthy(v) ==
    CASE v.t = "str" -> v.s # EmptyStr
      [] v.t = "num" -> TRUE
      [] v.t = "dict" -> TRUE
      [] v.t = "list" -> v.len > 0
      [] OTHER -> FALSE

\* dict.get(key): None for a missing key
Get(v) == IF v.t = "absent" THEN Null ELSE v

\* Python "a or b"
PyOr(a, b) == IF Truthy(a) THEN a ELSE b

\* ------------------------------------------------------------ configuration
\* os.environ.get(...) gives None for a variable that is not set
NoneStr == "<None>"
\* the values of an environment variable: not set, empty, the placeholder of
\* the .env template, a real value
ConfigValues(placeholder) == {NoneStr, "", placeholder, "secret"}
Configs ==
    [API_TOKEN : ConfigValues("your_runpod_api_token_here"),
     BEARER_TOKEN : ConfigValues("your_bearer_token_here"),
     AZURE_CONN_STR : ConfigValues("your_azure_connection_string_here")]

\* Python "not v" for an optional string
NotSet(v) == v = NoneStr \/ v = ""

\* check_api_configuration without the comparison with the placeholders
check_api_configuration_m(cfg) ==
    (IF NotSet(cfg.API_TOKEN) THEN {"API_TOKEN"} ELSE {})
      \cup (IF NotSet(cfg.BEARER_TOKEN) THEN {"BEARER_TOKEN"} ELSE {})
      \cup (IF NotSet(cfg.AZURE_CONN_STR) THEN {"AZURE_CONN_STR"} ELSE {})

\* check_api_configuration(): the set of names of missing_config
check_api_configuration(cfg) ==
    (IF NotSet(cfg.API_TOKEN) \/ cfg.API_TOKEN = "your_runpod_api_token_here"
     THEN {"API_TOKEN"} ELSE {})
      \cup
    (IF NotSet(cfg.BEARER_TOKEN) \/ cfg.BEARER_TOKEN = "your_bearer_token_here"
     THEN {"BEARER_TOKEN"} ELSE {})
      \cup
    (IF NotSet(cfg.AZURE_CONN_STR) \/ cfg.AZURE_CONN_STR = "your_azure_connection_string_here"
     THEN {"AZURE_CONN_STR"} ELSE {})

\* -------------------------------------------------------------- request id
HexChars == {"0","1","2","3","4","5","6","7","8","9","a","b","c","d","e","f","A","B","C","D","E","F"}
GuidLower == <<"1","2","3","e","4","5","6","7","-","e","8","9","b","-","1","2","d","3","-","a","4","5","6","-","4","2","6","6","1","4","1","7","4","0","0","0">>
NotGuid == <<"r","e","q","-","1">>

\* GUID_REGEX.match(rid): ^...$ with re.IGNORECASE; "$" also matches just
\* before a newline that ends the string
GuidMatch(s) ==
    LET body == IF Len(s) = 37 /\ s[37] = "\n" THEN SubSeq(s, 1, 36) ELSE s
    IN  /\ Len(body) = 36
        /\ \A i \in 1..36 :
             IF i \in {9, 14, 19, 24} THEN body[i] = "-" ELSE body[i] \in HexChars

\* the request_id values of the requests that are sent: no key, an empty
\* string, a string that is no GUID, a JSON number, a GUID
Rids == {Absent, Str(EmptyStr), Str(NotGuid), Num, Str(GuidLower)}

\* --------------------------------------------------------------- exceptions
\* An exception: its class, whether the class derives from
\* requests.exceptions.RequestException, its .response (has_response,
\* status_code) and the parts of its message.
Exc(type, isReq, has_response, status_code, msg) ==
    [type |-> type, isReq |-> isReq, has_response |-> has_response,
     status_code |-> status_code, msg |-> msg]
NoExc == Exc("none", FALSE, FALSE, 0, << >>)

\* requests.exceptions.HTTPError raised by raise_for_status()
HTTPError(code) == Exc("HTTPError", TRUE, TRUE, code, << >>)
\* ConnectionError / Timeout / SSLError / ChunkedEncodingError: no response
TransportError == Exc("ConnectionError", TRUE, FALSE, 0, << >>)
\* response.json() on a body that is not JSON; a RequestException since
\* requests 2.27, a plain ValueError before
JSONDecodeError(isReq) == Exc("JSONDecodeError", isReq, FALSE, 0, << >>)

\* Response.raise_for_status(): raises for 4xx and 5xx
RaisesForStatus(code) == code >= 400 /\ code < 600

\* ---------------------------------------------------------------- responses
NoField == "<no field>"
Body(status, message, user_message, error_code, blob_url) ==
    [status |-> status, message |-> message, user_message |-> user_message,
     error_code |-> error_code, blob_url |-> blob_url]
NoResponse == [http |-> 0, body |-> Body(NoField, NoField, NoField, NoField, NoField)]

\* GUID_REGEX.match(rid) raises TypeError for a request_id that is not a
\* string; the call is outside the try, Flask answers 500
UnhandledResponse == [http |-> 500, body |-> Body(NoField, NoField, NoField, NoField, NoField)]

\* handle_api_error with "status_code > 500" for the last test
handle_api_error_m(error) ==
    IF error.has_response /\ error.status_code = 401
    THEN Body("error", "API authentication failed. Please check your API configuration.",
              "The image generator is not properly configured. Please contact the administrator.",
              "AUTH_FAILED", NoField)
    ELSE IF error.has_response /\ error.status_code = 403
    THEN Body("error", "API access forbidden - insufficient permissions",
              "You don't have permission to use this service.",
              "ACCESS_FORBIDDEN", NoField)
    ELSE IF error.has_response /\ error.status_code = 429
    THEN Body("error", "API rate limit exceeded",
              "Too many requests. Please try again in a few minutes.",
              "RATE_LIMITED", NoField)
    ELSE IF error.has_response /\ error.status_code > 500
    THEN Body("error", "External API service error",
              "The image generation service is temporarily unavailable. Please try again later.",
              "SERVICE_ERROR", NoField)
    ELSE Body("error", "An unexpected error occurred",
              "Something went wrong. Please try again or contact support.",
              "UNKNOWN_ERROR", NoField)

\* handle_api_error(error, request_id)
handle_api_error(error) ==
    IF error.has_response /\ error.status_code = 401
    THEN Body("error", "API authentication failed. Please check your API configuration.",
              "The image generator is not properly configured. Please contact the administrator.",
              "AUTH_FAILED", NoField)
    ELSE IF error.has_response /\ error.status_code = 403
    THEN Body("error", "API access forbidden - insufficient permissions",
              "You don't have permission to use this service.",
              "ACCESS_FORBIDDEN", NoField)
    ELSE IF error.has_response /\ error.status_code = 429
    THEN Body("error", "API rate limit exceeded",
              "Too many requests. Please try again in a few minutes.",
              "RATE_LIMITED", NoField)
    ELSE IF error.has_response /\ error.status_code >= 500
    THEN Body("error", "External API service error",
              "The image generation service is temporarily unavailable. Please try again later.",
              "SERVICE_ERROR", NoField)
    ELSE Body("error", "An unexpected error occurred",
              "Something went wrong. Please try again or contact support.",
              "UNKNOWN_ERROR", NoField)

\* the two except clauses of generate_image
ExceptResponse(e) ==
    [http |-> IF e.isReq THEN 400 ELSE 500, body |-> handle_api_error(e)]

\* ------------------------------------------------------------- status data
NoKey == "<no key>"
ErrorTexts == {NoKey, "oom"}
StatusData(status, output, error) ==
    [status |-> status, output |-> output, error |-> error]
NoData == StatusData(NoKey, Absent, NoKey)

\* The bodies of the status responses. The code reads "output" only of a
\* COMPLETED body and "error" only of a FAILED or CANCELLED one, so the
\* other bodies carry neither.
StatusBodies ==
    {StatusData(st, Absent, NoKey) : st \in {NoKey, "IN_QUEUE", "IN_PROGRESS"}}
      \cup {StatusData("COMPLETED", o, NoKey) : o \in Outputs}
      \cup {StatusData(st, Absent, e) : st \in {"FAILED", "CANCELLED"}, e \in ErrorTexts}

\* dict.get(key, default) of a string field
GetOr(v, default) == IF v = NoKey THEN default ELSE v

\* the deadline test with ">=" in place of ">"
TimedOut_m(t, start) == t - start >= MAX_WAIT

\* "time.time() - t_start > 120"
TimedOut(t, start) == t - start > MAX_WAIT

\* the loop body with a status response without "status" taken as a failure
PollBranch_strict(sd, t, start) ==
    IF sd.status = "COMPLETED" THEN "break"
    ELSE IF sd.status \in {"FAILED", "CANCELLED", NoKey} THEN "RuntimeError"
    ELSE IF TimedOut(t, start) THEN "TimeoutError"
    ELSE "sleep"

\* the loop body without the branch for FAILED and CANCELLED
PollBranch_m(sd, t, start) ==
    IF sd.status = "COMPLETED" THEN "break"
    ELSE IF TimedOut(t, start) THEN "TimeoutError"
    ELSE "sleep"

\* the body of the polling loop after poll.json(): what the loop does next
PollBranch(sd, t, start) ==
    IF sd.status = "COMPLETED" THEN "break"
    ELSE IF sd.status \in {"FAILED", "CANCELLED"} THEN "RuntimeError"
    ELSE IF TimedOut(t, start) THEN "TimeoutError"
    ELSE "sleep"

\* RuntimeError(f"Generation {status}: {error}")
GenerationError(sd) ==
    Exc("RuntimeError", FALSE, FALSE, 0,
        <<"Generation ", sd.status, ": ", GetOr(sd.error, "")>>)
TimeoutError == Exc("TimeoutError", FALSE, FALSE, 0, <<"Timed out waiting for completed job.">>)

\* "Parse output" with the two fields of an object tried in the other order
ParseOutput_m(output) ==
    IF output.t = "dict" THEN PyOr(Get(output.image), Get(output.image_url))
    ELSE IF output.t = "str" THEN output
    ELSE IF output.t = "list" /\ Truthy(output) /\ output.first.t = "str" THEN output.first
    ELSE Null

\* "Parse output": the value of image_url before "if not image_url"
ParseOutput(output) ==
    IF output.t = "dict" THEN PyOr(Get(output.image_url), Get(output.image))
    ELSE IF output.t = "str" THEN output
    ELSE IF output.t = "list" /\ Truthy(output) /\ output.first.t = "str" THEN output.first
    ELSE Null

\* the decoding with every output that is no data URI fetched over HTTP
DecodeBranch_any(url) ==
    IF StartsWith(url, DataPrefix) THEN "data" ELSE "http"

\* the decoding with every recognised output fetched over HTTP
DecodeBranch_m(url) ==
    IF StartsWith(url, DataPrefix) \/ StartsWith(url, HttpPrefix) THEN "http"
    ELSE "ValueError"

\* where the bytes of image_url come from
DecodeBranch(url) ==
    IF StartsWith(url, DataPrefix) THEN "data"
    ELSE IF StartsWith(url, HttpPrefix) THEN "http"
    ELSE "ValueError"

\* ------------------------------------------------------------- blob upload
UploadFailures == {"none", "client", "container", "create", "blob_client", "open", "upload"}
NoBlob == [exists |-> FALSE, data |-> << >>]
BlobUrl == "https://whiperimages.blob.core.windows.net/images/rid.png"

\* upload_blob returning the URL of the blob also when the upload failed
upload_blob_m(failure, f, old) ==
    IF failure = "client"
    THEN [raised |-> TRUE, url |-> NoneStr, blob |-> old]
    ELSE IF failure \in {"container", "blob_client", "open", "upload"}
    THEN [raised |-> FALSE, url |-> BlobUrl, blob |-> old]
    ELSE [raised |-> FALSE, url |-> BlobUrl, blob |-> [exists |-> TRUE, data |-> f.data]]

\* upload_blob(local_path, blob_name) when the step named by failure raises:
\* the client is built outside the try, create_container has its own except,
\* every other failure is logged and gives None
upload_blob(failure, f, old) ==
    IF failure = "client"
    THEN [raised |-> TRUE, url |-> NoneStr, blob |-> old]
    ELSE IF failure \in {"container", "blob_client", "open", "upload"}
    THEN [raised |-> FALSE, url |-> NoneStr, blob |-> old]
    ELSE [raised |-> FALSE, url |-> BlobUrl, blob |-> [exists |-> TRUE, data |-> f.data]]

\* ------------------------------------------------------------------- state
\* The clock advances while a status request is in flight (0..MaxCallTime)
\* and by POLL_INTERVAL in time.sleep; the code does not read it after the
\* loop, so the image request and the upload leave it alone.
VARIABLES
    route,        \* the route the request was sent to
    pc,           \* position of the request in its route
    config,       \* API_TOKEN, BEARER_TOKEN, AZURE_CONN_STR of the process
    rid,          \* data.get("request_id")
    now,          \* time.time()
    t_start,      \* t_start
    job_id,       \* job_id
    submits,      \* number of POST /run requests issued
    polls,        \* number of GET /status/{id} requests issued
    nonterminal,  \* number of polls that returned a non-terminal status
    inflight,     \* number of status requests issued and not yet returned
    status_data,  \* status_data of the last poll
    result,       \* result: the status_data the loop left with, NoData before
    completed,    \* the loop has left through "break"
    image_url,    \* image_url
    fetches,      \* number of GET image_url requests issued
    chunksLeft,   \* chunks of the image body not yet delivered
    file,         \* the file at save_path
    opens,        \* number of times save_path was opened for writing
    blob,         \* the blob {rid}.png of the container
    uploads,      \* number of calls of upload_blob
    renders,      \* number of calls of HTML(...).write_pdf
    pdf,          \* the file at pdf_path
    exc,          \* the exception that ended the request, NoExc when none
    errSite,      \* the call that raised exc
    response      \* the response of the route

genVars == <<route, pc, config, rid, now, t_start, job_id, submits, polls,
             nonterminal, inflight, status_data, result, completed, image_url,
             fetches, chunksLeft, file, opens, blob, uploads, renders, pdf,
             exc, errSite, response>>

\* Two /generate requests of one process, each in a thread of its own
VARIABLES
    cpc,          \* position of each request in generate_image
    crid,         \* request_id of each request
    cjob,         \* job_id of each request, 0 before its submit returned
    issued,       \* number of ids the external API has handed out
    cpolled,      \* the pairs <<request, id>> of the status requests issued
    cwaits,       \* non-terminal polls of each request
    cout,         \* the job whose output each request was handed, and its form
    files,        \* the directory static/generated_images, by request id
    cpos,         \* offset of the file object each request writes through
    blobs,        \* the container, by request id
    cuploaded     \* the bytes each request uploaded, NotUploaded before

concVars == <<cpc, crid, cjob, issued, cpolled, cwaits, cout, files, cpos,
              blobs, cuploaded>>

\* The web MCP routes of one process, each request in a thread of its own
VARIABLES
    mpc,          \* position of each MCP request
    mroute,       \* the MCP route of each request
    seen,         \* app_metrics as it was when each request arrived
    app_metrics,  \* the process-wide counters object
    recorded      \* the recordings completed so far

metVars == <<mpc, mroute, seen, app_metrics, recorded>>

\* An integration-test request given to the stdio tool and to the web
\* route; a request id given to the two routes of app.py; GET /health
VARIABLES
    ireq,         \* the integration-test request and the outcomes of its steps
    istdio,       \* what run_integration_test made of it, NoRun before
    iweb,         \* what /mcp/integration made of it, NoRun before
    grid,         \* a string sent as request_id
    gpc,          \* "sent", then "generate" or "pdf": the route that validated it
    gaccepted,    \* the route went past its validation
    gpath,        \* save_path or pdf_path built from it
    health        \* the response of GET /health, NoHealth before

auxVars == <<ireq, istdio, iweb, grid, gpc, gaccepted, gpath, health>>

NoFile == [exists |-> FALSE, data |-> << >>]
JobId == Str(<<"j", "1">>)
\* the "id" of the body of the /run response
JobIds == {Absent, Null, Str(EmptyStr), JobId}
\* status codes of the responses of the external API and of the image host
HttpCodes == {200, 399, 400, 401, 403, 404, 429, 499, 500, 503, 599, 600}

Routes == {"generate", "pdf"}

\* the variables of a request other than its route, position and configuration
GenZero ==
    /\ rid = Absent
    /\ now = StartTime
    /\ t_start = 0
    /\ job_id = Absent
    /\ submits = 0
    /\ polls = 0
    /\ nonterminal = 0
    /\ inflight = 0
    /\ status_data = NoData
    /\ result = NoData
    /\ completed = FALSE
    /\ image_url = Null
    /\ fetches = 0
    /\ chunksLeft = 0
    /\ file = NoFile
    /\ opens = 0
    /\ blob = NoBlob
    /\ uploads = 0
    /\ renders = 0
    /\ pdf = NoFile
    /\ exc = NoExc
    /\ errSite = "none"
    /\ response = NoResponse

GenInit ==
    /\ route \in Routes
    /\ pc = "validate"
    /\ config \in Configs
    /\ GenZero

\* no request is sent to /generate or /convert_html_to_pdf
GenOff ==
    /\ route = "generate"
    /\ pc = "off"
    /\ config = [API_TOKEN |-> NoneStr, BEARER_TOKEN |-> NoneStr, AZURE_CONN_STR |-> NoneStr]
    /\ GenZero

\* an exception leaves the try block at the call named site: one of the two
\* except clauses builds the response
Raise(e, site) ==
    /\ exc' = e
    /\ errSite' = site
    /\ response' = ExceptResponse(e)
    /\ pc' = "done"

\* The exceptions an HTTP call followed by raise_for_status() and json() can
\* leave the try block with: a transport failure, an error status, a body
\* that is not JSON
CallFailures ==
    {TransportError}
      \cup {HTTPError(code) : code \in {c \in HttpCodes : RaisesForStatus(c)}}
      \cup {JSONDecodeError(isReq) : isReq \in BOOLEAN}

\* generate_image, lines 124-148: validation of the request and of the
\* configuration
Validate ==
    /\ route = "generate"
    /\ pc = "validate"
    /\ \E r \in Rids, prompt \in BOOLEAN :
         /\ rid' = r
         /\ IF ~Truthy(r) \/ ~prompt
            THEN /\ response' = [http |-> 400, body |-> Body("error", "Missing request_id or prompt", NoField, NoField, NoField)]
                 /\ pc' = "done"
            ELSE IF r.t # "str"
            THEN /\ response' = UnhandledResponse
                 /\ pc' = "done"
            ELSE IF ~GuidMatch(r.s)
            THEN /\ response' = [http |-> 400, body |-> Body("error", "request_id must be a valid GUID", NoField, NoField, NoField)]
                 /\ pc' = "done"
            ELSE IF check_api_configuration(config) # {}
            THEN /\ response' = [http |-> 503, body |-> Body("error", "Service configuration incomplete", "The service is not properly configured. Missing: ...", "CONFIG_MISSING", NoField)]
                 /\ pc' = "done"
            ELSE /\ response' = response
                 /\ pc' = "submit"
    /\ UNCHANGED <<concVars, metVars, auxVars>>
    /\ UNCHANGED <<nonterminal, route, renders, pdf, config, now, t_start, job_id, submits, polls, inflight,
                   status_data, result, completed, image_url,
                   fetches, chunksLeft, file, opens, blob, uploads, exc, errSite>>

\* lines 155-164: POST /run, raise_for_status, json, job id, t_start. The
\* clock is read for the first time when the call has returned: now is that
\* reading.
Submit ==
    /\ pc = "submit"
    /\ submits' = submits + 1
    /\ \/ \E e \in CallFailures :
            /\ Raise(e, "submit")
            /\ UNCHANGED <<job_id, t_start>>
       \/ \E id \in JobIds :
            IF ~Truthy(Get(id))
            THEN /\ Raise(Exc("ValueError", FALSE, FALSE, 0, <<"Job ID not found in /run response.">>), "submit")
                 /\ UNCHANGED <<job_id, t_start>>
            ELSE /\ job_id' = id
                 /\ t_start' = now
                 /\ pc' = "poll"
                 /\ UNCHANGED <<exc, errSite, response>>
    /\ UNCHANGED <<concVars, metVars, auxVars>>
    /\ UNCHANGED <<nonterminal, route, renders, pdf, config, rid, now, polls, inflight, status_data,
                   result, completed, image_url, fetches, chunksLeft, file,
                   opens, blob, uploads>>

\* line 166: the status request is sent
PollIssue ==
    /\ pc = "poll"
    /\ polls' = polls + 1
    /\ inflight' = inflight + 1
    /\ pc' = "poll_wait"
    /\ UNCHANGED <<concVars, metVars, auxVars>>
    /\ UNCHANGED <<nonterminal, route, renders, pdf, config, rid, now, t_start, job_id, submits, status_data,
                   result, completed, image_url, fetches, chunksLeft, file,
                   opens, blob, uploads, exc, errSite, response>>

\* lines 166-175: the status request returns; raise_for_status, json and the
\* branches of the loop body
PollReturn ==
    /\ pc = "poll_wait"
    /\ inflight' = inflight - 1
    /\ \E d \in 0..MaxCallTime :
         /\ now' = now + d
         /\ \/ \E e \in CallFailures :
                 /\ Raise(e, "poll")
                 /\ UNCHANGED <<status_data, result, completed, nonterminal>>
            \/ \E sd \in StatusBodies :
                 /\ status_data' = sd
                 /\ nonterminal' = IF sd.status \in {"COMPLETED", "FAILED", "CANCELLED"}
                                    THEN nonterminal ELSE nonterminal + 1
                 /\ CASE PollBranch(sd, now', t_start) = "break" ->
                           /\ result' = sd
                           /\ completed' = TRUE
                           /\ pc' = "parse"
                           /\ UNCHANGED <<exc, errSite, response>>
                      [] PollBranch(sd, now', t_start) = "RuntimeError" ->
                           /\ Raise(GenerationError(sd), "loop")
                           /\ UNCHANGED <<result, completed>>
                      [] PollBranch(sd, now', t_start) = "TimeoutError" ->
                           /\ Raise(TimeoutError, "loop")
                           /\ UNCHANGED <<result, completed>>
                      [] OTHER ->
                           /\ pc' = "sleep"
                           /\ UNCHANGED <<result, completed, exc, errSite, response>>
    /\ UNCHANGED <<concVars, metVars, auxVars>>
    /\ UNCHANGED <<route, renders, pdf, config, rid, t_start, job_id, submits, polls, image_url,
                   fetches, chunksLeft, file, opens, blob, uploads>>

\* time.sleep that does not return
Sleep_m ==
    /\ pc = "sleep"
    /\ UNCHANGED <<genVars, concVars, metVars, auxVars>>

\* line 176: time.sleep(2)
Sleep ==
    /\ pc = "sleep"
    /\ now' = now + POLL_INTERVAL
    /\ pc' = "poll"
    /\ UNCHANGED <<concVars, metVars, auxVars>>
    /\ UNCHANGED <<nonterminal, route, renders, pdf, config, rid, t_start, job_id, submits, polls, inflight,
                   status_data, result, completed, image_url,
                   fetches, chunksLeft, file, opens, blob, uploads, exc,
                   errSite, response>>

\* lines 178-197: "Parse output", then the data-URI branch to its end, or the
\* HTTP branch up to the request
Decode ==
    /\ pc = "parse"
    /\ image_url' = ParseOutput(result.output)
    /\ IF ~Truthy(image_url')
       THEN /\ Raise(Exc("ValueError", FALSE, FALSE, 0, <<"image_url not found in output.">>), "parse")
            /\ UNCHANGED <<file, opens>>
       ELSE IF image_url'.t # "str"
       THEN /\ Raise(Exc("AttributeError", FALSE, FALSE, 0, <<"startswith">>), "decode")
            /\ UNCHANGED <<file, opens>>
       ELSE CASE DecodeBranch(image_url'.s) = "data" ->
                   IF ~b64decode(SplitLast(image_url'.s)).ok
                   THEN /\ Raise(Exc("binascii.Error", FALSE, FALSE, 0, <<"Incorrect padding">>), "decode")
                        /\ UNCHANGED <<file, opens>>
                   ELSE \/ /\ Raise(Exc("OSError", FALSE, FALSE, 0, <<"open">>), "open")
                           /\ UNCHANGED <<file, opens>>
                        \/ /\ file' = [exists |-> TRUE, data |-> b64decode(SplitLast(image_url'.s)).bytes]
                           /\ opens' = opens + 1
                           /\ pc' = "upload"
                           /\ UNCHANGED <<exc, errSite, response>>
              [] DecodeBranch(image_url'.s) = "http" ->
                   /\ pc' = "fetch"
                   /\ UNCHANGED <<file, opens, exc, errSite, response>>
              [] OTHER ->
                   /\ Raise(Exc("ValueError", FALSE, FALSE, 0, <<"Unrecognized image_url format!">>), "decode")
                   /\ UNCHANGED <<file, opens>>
    /\ UNCHANGED <<concVars, metVars, auxVars>>
    /\ UNCHANGED <<nonterminal, route, renders, pdf, config, rid, now, t_start, job_id, submits, polls, inflight,
                   status_data, result, completed, fetches,
                   chunksLeft, blob, uploads>>

\* lines 198-200: GET image_url with stream=True, raise_for_status, and the
\* open of save_path, which creates or truncates the file
Fetch ==
    /\ pc = "fetch"
    /\ fetches' = fetches + 1
    /\ \/ \E e \in {TransportError} \cup {HTTPError(code) : code \in {c \in HttpCodes : RaisesForStatus(c)}} :
            /\ Raise(e, "fetch")
            /\ UNCHANGED <<file, opens, chunksLeft>>
       \/ /\ Raise(Exc("OSError", FALSE, FALSE, 0, <<"open">>), "open")
          /\ UNCHANGED <<file, opens, chunksLeft>>
       \/ \E n \in 0..MaxChunks :
            /\ chunksLeft' = n
            /\ file' = [exists |-> TRUE, data |-> << >>]
            /\ opens' = opens + 1
            /\ pc' = "stream"
            /\ UNCHANGED <<exc, errSite, response>>
    /\ UNCHANGED <<concVars, metVars, auxVars>>
    /\ UNCHANGED <<nonterminal, route, renders, pdf, config, rid, now, t_start, job_id, submits, polls, inflight,
                   status_data, result, completed, image_url,
                   blob, uploads>>

\* lines 201-202: one turn of "for chunk in img_r.iter_content(1024)": the
\* next chunk is written, the connection breaks, or the body has ended
Stream ==
    /\ pc = "stream"
    /\ IF chunksLeft = 0
       THEN /\ pc' = "upload"
            /\ UNCHANGED <<file, chunksLeft, exc, errSite, response>>
       ELSE \/ /\ file' = [file EXCEPT !.data = Append(@, Len(@) + 1)]
               /\ chunksLeft' = chunksLeft - 1
               /\ UNCHANGED <<pc, exc, errSite, response>>
            \/ /\ Raise(Exc("ChunkedEncodingError", TRUE, FALSE, 0, << >>), "stream")
               /\ UNCHANGED <<file, chunksLeft>>
    /\ UNCHANGED <<concVars, metVars, auxVars>>
    /\ UNCHANGED <<nonterminal, route, renders, pdf, config, rid, now, t_start, job_id, submits, polls, inflight,
                   status_data, result, completed, image_url,
                   fetches, opens, blob, uploads>>

\* lines 206-207: upload_blob and the success response
Upload ==
    /\ pc = "upload"
    /\ uploads' = uploads + 1
    /\ \E failure \in UploadFailures :
         LET r == upload_blob(failure, file, blob) IN
           /\ blob' = r.blob
           /\ IF r.raised
              THEN Raise(Exc("ValueError", FALSE, FALSE, 0, <<"Connection string is either blank or malformed.">>), "upload")
              ELSE /\ response' = [http |-> 200, body |-> Body("success", NoField, NoField, NoField, r.url)]
                   /\ pc' = "done"
                   /\ UNCHANGED <<exc, errSite>>
    /\ UNCHANGED <<concVars, metVars, auxVars>>
    /\ UNCHANGED <<nonterminal, route, renders, pdf, config, rid, now, t_start, job_id, submits, polls, inflight,
                   status_data, result, completed, image_url,
                   fetches, chunksLeft, file, opens>>

\* what follows HTML(...).write_pdf(pdf_path) with the upload also made
\* when the renderer raised
AfterRender_m(raised) == "upload"

\* what follows HTML(...).write_pdf(pdf_path): the except clause when it
\* raised, upload_blob when it returned
AfterRender(raised) == IF raised THEN "except" ELSE "upload"

\* the bytes the renderer writes
PdfBytes == <<37, 80, 68, 70>>

\* convert_html_to_pdf, lines 220-227: validation of the request
PdfValidate ==
    /\ route = "pdf"
    /\ pc = "validate"
    /\ \E r \in Rids, html \in BOOLEAN :
         /\ rid' = r
         /\ IF ~Truthy(r) \/ ~html
            THEN /\ response' = [http |-> 400, body |-> Body("error", "Missing request_id or html", NoField, NoField, NoField)]
                 /\ pc' = "done"
            ELSE IF r.t # "str"
            THEN /\ response' = UnhandledResponse
                 /\ pc' = "done"
            ELSE IF ~GuidMatch(r.s)
            THEN /\ response' = [http |-> 400, body |-> Body("error", "request_id must be a valid GUID", NoField, NoField, NoField)]
                 /\ pc' = "done"
            ELSE /\ response' = response
                 /\ pc' = "render"
    /\ UNCHANGED <<concVars, metVars, auxVars>>
    /\ UNCHANGED <<nonterminal, route, renders, pdf, config, now, t_start, job_id,
                   submits, polls, inflight, status_data, result, completed,
                   image_url, fetches, chunksLeft, file, opens, blob, uploads,
                   exc, errSite>>

\* lines 230-232 and 235-237: the renderer is called and writes pdf_path, or
\* raises and the except clause answers 500 with the text of the exception
PdfRender ==
    /\ route = "pdf"
    /\ pc = "render"
    /\ renders' = renders + 1
    /\ \E raised \in BOOLEAN :
         IF AfterRender(raised) = "except"
         THEN /\ exc' = Exc("Exception", FALSE, FALSE, 0, <<"render">>)
              /\ errSite' = "render"
              /\ response' = [http |-> 500, body |-> Body("error", "render", NoField, NoField, NoField)]
              /\ pc' = "done"
              /\ pdf' = pdf
         ELSE /\ pdf' = IF raised THEN pdf ELSE [exists |-> TRUE, data |-> PdfBytes]
              /\ exc' = IF raised THEN Exc("Exception", FALSE, FALSE, 0, <<"render">>) ELSE exc
              /\ pc' = "pdf_upload"
              /\ UNCHANGED <<errSite, response>>
    /\ UNCHANGED <<concVars, metVars, auxVars>>
    /\ UNCHANGED <<nonterminal, route, config, rid, now, t_start, job_id,
                   submits, polls, inflight, status_data, result, completed,
                   image_url, fetches, chunksLeft, file, opens, blob, uploads>>

\* lines 233-237: upload_blob and the success response; an exception of
\* upload_blob reaches the except clause
PdfUpload ==
    /\ route = "pdf"
    /\ pc = "pdf_upload"
    /\ uploads' = uploads + 1
    /\ \E failure \in UploadFailures :
         LET r == upload_blob(failure, pdf, blob) IN
           /\ blob' = r.blob
           /\ IF r.raised
              THEN /\ exc' = Exc("ValueError", FALSE, FALSE, 0, <<"Connection string is either blank or malformed.">>)
                   /\ errSite' = "upload"
                   /\ response' = [http |-> 500, body |-> Body("error", "Connection string is either blank or malformed.", NoField, NoField, NoField)]
              ELSE /\ response' = [http |-> 200, body |-> Body("success", NoField, NoField, NoField, r.url)]
                   /\ UNCHANGED <<exc, errSite>>
           /\ pc' = "done"
    /\ UNCHANGED <<concVars, metVars, auxVars>>
    /\ UNCHANGED <<nonterminal, route, renders, pdf, config, rid, now, t_start,
                   job_id, submits, polls, inflight, status_data, result,
                   completed, image_url, fetches, chunksLeft, file, opens>>

\* ------------------------------------------- two concurrent /generate requests
\* Both requests have passed the validation of lines 124-148. job_id,
\* status_data, image_url and save_path are locals of generate_image, one per
\* request; the files under static/generated_images and the blobs of the
\* container belong to the process and to the storage account.

\* largest number of non-terminal polls of one request
MaxWaits == 1

Reqs == {1, 2}
\* two request ids that match GUID_REGEX
ReqIds == {"g1", "g2"}
\* the forms of a job output: a data URI, written with one write, and a URL,
\* streamed in MaxChunks chunks
Forms == {"data", "http"}
NoOut == [job |-> 0, form |-> "data"]
NotUploaded == <<"not uploaded">>
Hole == <<0, 0>>

\* the bytes of the output of job j, as the chunks they are written in
Output(j, form) ==
    [k \in 1..(IF form = "data" THEN 1 ELSE MaxChunks) |-> <<j, k>>]

\* f.write(chunk) through a file object whose offset is pos: the chunk
\* replaces what the file holds there and a gap is filled with zero bytes
WriteAt(f, pos, chunk) ==
    [i \in 1..(IF Len(f) > pos THEN Len(f) ELSE pos + 1) |->
        IF i = pos + 1 THEN chunk ELSE IF i <= Len(f) THEN f[i] ELSE Hole]

\* the id of the status URL of a request: its local job_id
PolledId_m(jobs, r, last) == last
PolledId(jobs, r, last) == jobs[r]

ConcInit ==
    /\ cpc = [r \in Reqs |-> "submit"]
    /\ crid \in [Reqs -> ReqIds]
    /\ cjob = [r \in Reqs |-> 0]
    /\ issued = 0
    /\ cpolled = {}
    /\ cwaits = [r \in Reqs |-> 0]
    /\ cout = [r \in Reqs |-> NoOut]
    /\ files = [g \in ReqIds |-> << >>]
    /\ cpos = [r \in Reqs |-> 0]
    /\ blobs = [g \in ReqIds |-> << >>]
    /\ cuploaded = [r \in Reqs |-> NotUploaded]

\* no request is in generate_image
ConcOff ==
    /\ cpc = [r \in Reqs |-> "off"]
    /\ crid = [r \in Reqs |-> "g1"]
    /\ cjob = [r \in Reqs |-> 0]
    /\ issued = 0
    /\ cpolled = {}
    /\ cwaits = [r \in Reqs |-> 0]
    /\ cout = [r \in Reqs |-> NoOut]
    /\ files = [g \in ReqIds |-> << >>]
    /\ cpos = [r \in Reqs |-> 0]
    /\ blobs = [g \in ReqIds |-> << >>]
    /\ cuploaded = [r \in Reqs |-> NotUploaded]

\* lines 153-160: the external API hands out a fresh id for every submit
CSubmit(r) ==
    /\ cpc[r] = "submit"
    /\ \/ /\ issued' = issued + 1
          /\ cjob' = [cjob EXCEPT ![r] = issued + 1]
          /\ cpc' = [cpc EXCEPT ![r] = "poll"]
       \/ /\ cpc' = [cpc EXCEPT ![r] = "failed"]
          /\ UNCHANGED <<issued, cjob>>
    /\ UNCHANGED <<crid, cpolled, cwaits, cout, files, cpos, blobs, cuploaded>>
    /\ UNCHANGED <<genVars, metVars, auxVars>>

\* lines 162-188: one status request and what the loop does with its answer
CPoll(r) ==
    /\ cpc[r] = "poll"
    /\ LET id == PolledId(cjob, r, issued) IN
         /\ cpolled' = cpolled \cup {<<r, id>>}
         /\ \/ /\ cwaits[r] < MaxWaits
               /\ cwaits' = [cwaits EXCEPT ![r] = @ + 1]
               /\ UNCHANGED <<cpc, cout>>
            \/ /\ \E form \in Forms : cout' = [cout EXCEPT ![r] = [job |-> id, form |-> form]]
               /\ cpc' = [cpc EXCEPT ![r] = "decode"]
               /\ UNCHANGED cwaits
            \/ /\ cpc' = [cpc EXCEPT ![r] = "failed"]
               /\ UNCHANGED <<cwaits, cout>>
    /\ UNCHANGED <<crid, cjob, issued, files, cpos, blobs, cuploaded>>
    /\ UNCHANGED <<genVars, metVars, auxVars>>

\* lines 193 and 200: open(save_path, "wb") empties the file at
\* static/generated_images/{rid}.png; the image request of line 198 may fail
\* before it
COpen(r) ==
    /\ cpc[r] = "decode"
    /\ \/ /\ files' = [files EXCEPT ![crid[r]] = << >>]
          /\ cpos' = [cpos EXCEPT ![r] = 0]
          /\ cpc' = [cpc EXCEPT ![r] = "write"]
       \/ /\ cout[r].form = "http"
          /\ cpc' = [cpc EXCEPT ![r] = "failed"]
          /\ UNCHANGED <<files, cpos>>
    /\ UNCHANGED <<crid, cjob, issued, cpolled, cwaits, cout, blobs, cuploaded>>
    /\ UNCHANGED <<genVars, metVars, auxVars>>

\* lines 193-196 and 201-204: one write of the request's file object
CWrite(r) ==
    /\ cpc[r] = "write"
    /\ LET out == Output(cout[r].job, cout[r].form) IN
         /\ files' = [files EXCEPT ![crid[r]] = WriteAt(@, cpos[r], out[cpos[r] + 1])]
         /\ cpos' = [cpos EXCEPT ![r] = @ + 1]
         /\ cpc' = [cpc EXCEPT ![r] = IF cpos[r] + 1 = Len(out) THEN "upload" ELSE "write"]
    /\ UNCHANGED <<crid, cjob, issued, cpolled, cwaits, cout, blobs, cuploaded>>
    /\ UNCHANGED <<genVars, metVars, auxVars>>

\* lines 206-207 and 31-46: upload_blob reads the file at save_path and
\* replaces the blob {rid}.png (overwrite=True), or fails and returns None
CUpload(r) ==
    /\ cpc[r] = "upload"
    /\ \/ /\ blobs' = [blobs EXCEPT ![crid[r]] = files[crid[r]]]
          /\ cuploaded' = [cuploaded EXCEPT ![r] = files[crid[r]]]
       \/ UNCHANGED <<blobs, cuploaded>>
    /\ cpc' = [cpc EXCEPT ![r] = "done"]
    /\ UNCHANGED <<crid, cjob, issued, cpolled, cwaits, cout, files, cpos>>
    /\ UNCHANGED <<genVars, metVars, auxVars>>

\* ------------------------------------------------------------ app_metrics
\* The MCP servers import app_metrics from app (mcp_web_server.py:14-21,
\* mcp_server.py:27-34) and record into it; the class of the object is not
\* part of app.py. Its two recording methods are taken as the description
\* states them: counters that support concurrent increment from several
\* in-flight requests without lost updates.

\* number of MCP requests in flight
MetReqs == 2

MReqs == 1..MetReqs
MRoutes == {"validate", "image", "pdf", "integration", "tool"}
\* time.time() - start_time of a request
Durations == {1, 2}
NoMetrics ==
    [request_count |-> 0, successful_generations |-> 0,
     failed_generations |-> 0, response_times |-> << >>, errors |-> 0]
NoRecordings == [n |-> 0, ok |-> 0, errors |-> 0]

\* the value of the counters a recording works on: the one the object has
\* when the recording is made, never one read earlier
Atomic_m(shared, stale) == stale
Atomic(shared, stale) == shared

\* app_metrics.record_response_time(duration, success)
record_response_time(m, duration, success) ==
    [m EXCEPT !.request_count = @ + 1,
              !.successful_generations = IF success THEN @ + 1 ELSE @,
              !.failed_generations = IF success THEN @ ELSE @ + 1,
              !.response_times = Append(@, duration)]

\* app_metrics.record_error(error_type, message)
record_error(m) == [m EXCEPT !.errors = @ + 1]

MetInit ==
    /\ mpc = [r \in MReqs |-> "idle"]
    /\ mroute = [r \in MReqs |-> "validate"]
    /\ seen = [r \in MReqs |-> NoMetrics]
    /\ app_metrics = NoMetrics
    /\ recorded = NoRecordings

\* no MCP request arrives
MetOff ==
    /\ mpc = [r \in MReqs |-> "off"]
    /\ mroute = [r \in MReqs |-> "validate"]
    /\ seen = [r \in MReqs |-> NoMetrics]
    /\ app_metrics = NoMetrics
    /\ recorded = NoRecordings

\* one recording of request r: record_response_time and, in the except
\* clause of a route, record_error after it
Record(r, duration, success, raised) ==
    LET m0 == Atomic(app_metrics, seen[r])
        m1 == record_response_time(m0, duration, success)
    IN /\ app_metrics' = IF raised THEN record_error(m1) ELSE m1
       /\ recorded' = [n |-> recorded.n + 1,
                       ok |-> recorded.ok + (IF success THEN 1 ELSE 0),
                       errors |-> recorded.errors + (IF raised THEN 1 ELSE 0)]

\* outcome of the body of a route
Outcomes == {"success", "failure", "exception"}

\* the body of a route that records every request it handles
Recording(r) ==
    /\ \E o \in Outcomes, d \in Durations : Record(r, d, o = "success", o = "exception")
    /\ mpc' = [mpc EXCEPT ![r] = "done"]
    /\ UNCHANGED <<mroute, seen>>

\* the body of a route that answers 400, recording nothing, when
\* validate_request_data rejects the request
RecordingIfValid(r) ==
    /\ \/ \E o \in Outcomes, d \in Durations : Record(r, d, o = "success", o = "exception")
       \/ UNCHANGED <<app_metrics, recorded>>
    /\ mpc' = [mpc EXCEPT ![r] = "done"]
    /\ UNCHANGED <<mroute, seen>>

\* a request arrives at one of the routes: start_time = time.time()
MArrive(r) ==
    /\ mpc[r] = "idle"
    /\ \E rt \in MRoutes : mroute' = [mroute EXCEPT ![r] = rt]
    /\ seen' = [seen EXCEPT ![r] = app_metrics]
    /\ mpc' = [mpc EXCEPT ![r] = "handle"]
    /\ UNCHANGED <<app_metrics, recorded>>
    /\ UNCHANGED <<genVars, concVars, auxVars>>

\* mcp_web_server.py:562-595
mcp_validate(r) ==
    /\ mpc[r] = "handle" /\ mroute[r] = "validate"
    /\ Recording(r)
    /\ UNCHANGED <<genVars, concVars, auxVars>>

\* mcp_web_server.py:597-643
mcp_process_image(r) ==
    /\ mpc[r] = "handle" /\ mroute[r] = "image"
    /\ RecordingIfValid(r)
    /\ UNCHANGED <<genVars, concVars, auxVars>>

\* mcp_web_server.py:645-691
mcp_process_pdf(r) ==
    /\ mpc[r] = "handle" /\ mroute[r] = "pdf"
    /\ RecordingIfValid(r)
    /\ UNCHANGED <<genVars, concVars, auxVars>>

\* mcp_web_server.py:693-782
mcp_integration_test(r) ==
    /\ mpc[r] = "handle" /\ mroute[r] = "integration"
    /\ Recording(r)
    /\ UNCHANGED <<genVars, concVars, auxVars>>

\* mcp_server.py:132-262: a tool call of the stdio server, which records
\* the same way
handle_call_tool(r) ==
    /\ mpc[r] = "handle" /\ mroute[r] = "tool"
    /\ Recording(r)
    /\ UNCHANGED <<genVars, concVars, auxVars>>

\* -------------------------------------------------------- integration test
\* The request of run_integration_test (mcp_server.py) and of
\* /mcp/integration (mcp_web_server.py): its test_type, whether prompt and
\* html are present and not empty, and what validate_request_data,
\* process_image_request and process_pdf_request make of it.
TestTypes == {"image", "pdf", "both", "all"}
StepOutcomes == {"success", "error", "raises"}
IntegRequests ==
    [test_type : TestTypes, prompt : BOOLEAN, html : BOOLEAN,
     is_valid : BOOLEAN, image : StepOutcomes, pdf : StepOutcomes]
NoRun == [tests |-> << >>, status |-> "not run", success |-> FALSE]
OffRequest ==
    [test_type |-> "both", prompt |-> FALSE, html |-> FALSE,
     is_valid |-> FALSE, image |-> "error", pdf |-> "error"]

\* an entry of test_results
Test(name, passed) == <<name, IF passed THEN "passed" ELSE "failed">>

\* all(test.get("status") == "passed" for test in test_results)
AllPassed(tests) == \A i \in 1..Len(tests) : tests[i][2] = "passed"

\* the except clause of handle_call_tool and of mcp_integration_test:
\* record_response_time(duration, success=False) and an error response
IntegError == [tests |-> << >>, status |-> "error", success |-> FALSE]

\* handle_call_tool, name == "run_integration_test": lines 186-249
run_integration_test(req) ==
    LET validation == <<Test("validation", req.is_valid)>>
        runsImage == req.is_valid /\ req.test_type \in {"image", "both"} /\ req.prompt
        runsPdf == req.is_valid /\ req.test_type \in {"pdf", "both"} /\ req.html
        imageTest == IF runsImage
                 THEN <<Test("image_processing", req.image = "success")>> ELSE << >>
        pdfTest == IF runsPdf
               THEN <<Test("pdf_processing", req.pdf = "success")>> ELSE << >>
        test_results == validation \o imageTest \o pdfTest
        status == IF AllPassed(test_results) THEN "success" ELSE "partial_failure"
    IN  IF (runsImage /\ req.image = "raises") \/ (runsPdf /\ req.pdf = "raises")
        THEN IntegError
        ELSE [tests |-> test_results, status |-> status, success |-> status # "error"]

\* mcp_integration_test: lines 693-782
mcp_integration(req) ==
    LET validation == <<Test("validation", req.is_valid)>>
        runsImage == req.is_valid /\ (req.test_type \in {"image", "both"} /\ req.prompt)
        runsPdf == req.is_valid /\ (req.test_type \in {"pdf", "both"} /\ req.html)
        imageTest == IF runsImage
                 THEN <<Test("image_processing", req.image = "success")>> ELSE << >>
        pdfTest == IF runsPdf
               THEN <<Test("pdf_processing", req.pdf = "success")>> ELSE << >>
        test_results == validation \o imageTest \o pdfTest
        passed_tests == Cardinality({i \in 1..Len(test_results) : test_results[i][2] = "passed"})
        all_passed == passed_tests = Len(test_results)
    IN  IF (runsImage /\ req.image = "raises") \/ (runsPdf /\ req.pdf = "raises")
        THEN IntegError
        ELSE [tests |-> test_results,
              status |-> IF all_passed THEN "success" ELSE "partial_failure",
              success |-> all_passed]

IntegInit ==
    /\ ireq \in IntegRequests
    /\ istdio = NoRun
    /\ iweb = NoRun

\* no integration test is asked for
IntegOff ==
    /\ ireq = OffRequest
    /\ istdio = "off"
    /\ iweb = "off"

\* the request is given to the stdio tool
CallStdio ==
    /\ istdio = NoRun
    /\ istdio' = run_integration_test(ireq)
    /\ UNCHANGED <<ireq, iweb, grid, gpc, gaccepted, gpath, health>>
    /\ UNCHANGED <<genVars, concVars, metVars>>

\* the request is posted to /mcp/integration
CallWeb ==
    /\ iweb = NoRun
    /\ iweb' = mcp_integration(ireq)
    /\ UNCHANGED <<ireq, istdio, grid, gpc, gaccepted, gpath, health>>
    /\ UNCHANGED <<genVars, concVars, metVars>>

\* ------------------------------------------------ request ids and the paths
\* s with its i-th character replaced by ch
ReplaceAt(s, i, ch) == [k \in 1..Len(s) |-> IF k = i THEN ch ELSE s[k]]

\* The strings sent as request_id: a GUID with one character replaced, a
\* GUID with a character before or after it, a GUID cut short, no character
GuidCandidates ==
    {ReplaceAt(GuidLower, i, ch) : i \in 1..36, ch \in {"F", "g", "-"}}
      \cup {GuidLower \o <<ch>> : ch \in {"\n", " ", "0"}}
      \cup {<<ch>> \o GuidLower : ch \in {"\n", " ", "0"}}
      \cup {SubSeq(GuidLower, 1, 35), EmptyStr}

ImagesDir == <<"s","t","a","t","i","c","/","g","e","n","e","r","a","t","e","d","_","i","m","a","g","e","s","/">>
\* f"static/generated_images/{rid}.png"
save_path(r) == ImagesDir \o r \o <<".","p","n","g">>
\* os.path.join("static/generated_images", f"{rid}.pdf")
pdf_path(r) == ImagesDir \o r \o <<".","p","d","f">>

\* "not rid" and "not GUID_REGEX.match(rid)" of the two routes: TRUE when
\* the route goes on
AcceptsRid(r) == r # EmptyStr /\ GuidMatch(r)

GuidInit ==
    /\ grid \in GuidCandidates
    /\ gpc = "sent"
    /\ gaccepted = FALSE
    /\ gpath = EmptyStr

\* no request id is sent
GuidOff ==
    /\ grid = EmptyStr
    /\ gpc = "off"
    /\ gaccepted = FALSE
    /\ gpath = EmptyStr

\* generate_image, lines 124-133 and 190, for a request with a prompt
GenerateRid ==
    /\ gpc = "sent"
    /\ gpc' = "generate"
    /\ gaccepted' = AcceptsRid(grid)
    /\ gpath' = IF AcceptsRid(grid) THEN save_path(grid) ELSE EmptyStr
    /\ UNCHANGED <<ireq, istdio, iweb, grid, health>>
    /\ UNCHANGED <<genVars, concVars, metVars>>

\* convert_html_to_pdf, lines 220-231, for a request with html
PdfRid ==
    /\ gpc = "sent"
    /\ gpc' = "pdf"
    /\ gaccepted' = AcceptsRid(grid)
    /\ gpath' = IF AcceptsRid(grid) THEN pdf_path(grid) ELSE EmptyStr
    /\ UNCHANGED <<ireq, istdio, iweb, grid, health>>
    /\ UNCHANGED <<genVars, concVars, metVars>>

\* ------------------------------------------------------------------ /health
NoHealth == [http |-> 0, status |-> "none", api_configured |-> FALSE]

\* health_check(), lines 240-258
health_check ==
    /\ health = NoHealth
    /\ LET missing_config == check_api_configuration(config) IN
         health' = [http |-> IF missing_config = {} THEN 200 ELSE 503,
                    status |-> IF missing_config = {} THEN "healthy" ELSE "degraded",
                    api_configured |-> Cardinality(missing_config) = 0]
    /\ UNCHANGED <<ireq, istdio, iweb, grid, gpc, gaccepted, gpath>>
    /\ UNCHANGED <<genVars, concVars, metVars>>

\* GET /health is not requested
HealthOff == health = "off"

\* none of the requests of the three groups above is made
AuxOff == IntegOff /\ GuidOff /\ HealthOff

vars == <<genVars, concVars, metVars, auxVars>>

Init == GenInit /\ ConcOff /\ MetOff /\ AuxOff

Next ==
    \/ PdfValidate
    \/ PdfRender
    \/ PdfUpload
    \/ Validate
    \/ Submit
    \/ PollIssue
    \/ PollReturn
    \/ Sleep
    \/ Decode
    \/ Fetch
    \/ Stream
    \/ Upload

Spec == Init /\ [][Next]_vars

\* Every external call returns or fails and time.sleep returns: a request
\* that can take a step takes one
SpecLive == Spec /\ WF_vars(Next)

\* two concurrent /generate requests
InitConc == GenOff /\ ConcInit /\ MetOff /\ AuxOff

NextConc ==
    \E r \in Reqs :
        \/ CSubmit(r)
        \/ CPoll(r)
        \/ COpen(r)
        \/ CWrite(r)
        \/ CUpload(r)

SpecConc == InitConc /\ [][NextConc]_vars

\* MCP requests recording into app_metrics
InitMetrics == GenOff /\ ConcOff /\ MetInit /\ AuxOff

NextMetrics ==
    \E r \in MReqs :
        \/ MArrive(r)
        \/ mcp_validate(r)
        \/ mcp_process_image(r)
        \/ mcp_process_pdf(r)
        \/ mcp_integration_test(r)
        \/ handle_call_tool(r)

SpecMetrics == InitMetrics /\ [][NextMetrics]_vars

\* one integration-test request given to both surfaces
InitInteg == GenOff /\ ConcOff /\ MetOff /\ IntegInit /\ GuidOff /\ HealthOff

NextInteg == CallStdio \/ CallWeb

SpecInteg == InitInteg /\ [][NextInteg]_vars

\* one request id sent to /generate or to /convert_html_to_pdf
InitGuid == GenOff /\ ConcOff /\ MetOff /\ IntegOff /\ GuidInit /\ HealthOff

NextGuid == GenerateRid \/ PdfRid

SpecGuid == InitGuid /\ [][NextGuid]_vars

\* GET /health and a /generate request under the same configuration
InitHealth ==
    /\ GenInit /\ route = "generate"
    /\ ConcOff /\ MetOff /\ IntegOff /\ GuidOff
    /\ health = NoHealth

NextHealth == health_check \/ Validate \/ Submit

SpecHealth == InitHealth /\ [][NextHealth]_vars

\* ------------------------------------------------------------------ claims
TerminalStatuses == {"COMPLETED", "FAILED", "CANCELLED"}

\* the request is in the polling loop
InLoop == pc \in {"poll", "poll_wait", "sleep"}

\* how the polling loop ended, for a request that has left it
LoopOutcome ==
    IF completed THEN "Completed"
    ELSE IF exc.type = "RuntimeError" /\ status_data.status = "FAILED" THEN "Failed"
    ELSE IF exc.type = "RuntimeError" /\ status_data.status = "CANCELLED" THEN "Cancelled"
    ELSE IF exc.type = "TimeoutError" THEN "TimedOut"
    ELSE "Other"

\* C1: a request whose status stays non-terminal for more than 120 time
\* units after polling started ends as TimedOut, and no status request is
\* issued once more than 120 time units have passed since polling started.
C1_TimedOutAndNoLatePoll ==
    /\ [](pc = "done" /\ errSite = "loop"
            /\ status_data.status \notin TerminalStatuses
            /\ now - t_start > MAX_WAIT
          => LoopOutcome = "TimedOut")
    /\ [][polls' # polls => now - t_start <= MAX_WAIT]_vars

\* C2: the error code of an HTTP error response depends on the status code
\* only, at the submit, the poll and the image fetch alike: 401 gives
\* AUTH_FAILED, 403 ACCESS_FORBIDDEN, 429 RATE_LIMITED, 500..599
\* SERVICE_ERROR, and every status code gives one of the error codes.
C2_ErrorCodeByStatus ==
    (pc = "done" /\ exc.type = "HTTPError") =>
        /\ errSite \in {"submit", "poll", "fetch"}
        /\ exc.status_code = 401 => response.body.error_code = "AUTH_FAILED"
        /\ exc.status_code = 403 => response.body.error_code = "ACCESS_FORBIDDEN"
        /\ exc.status_code = 429 => response.body.error_code = "RATE_LIMITED"
        /\ exc.status_code \in 500..599 => response.body.error_code = "SERVICE_ERROR"
        /\ response.body.error_code \in
             {"AUTH_FAILED", "ACCESS_FORBIDDEN", "RATE_LIMITED", "SERVICE_ERROR", "UNKNOWN_ERROR"}

\* a 5xx answer to the image fetch has been reported
C2_Witness ==
    /\ pc = "done"
    /\ exc.type = "HTTPError"
    /\ errSite = "fetch"
    /\ exc.status_code = 599
    /\ response.body.error_code = "SERVICE_ERROR"

\* C3: a poll that returns COMPLETED ends the loop as Completed, and the
\* output used is the first rule that gives a value: the field image_url of
\* an object, its field image, a bare string, the first element of a list
\* when it is a string.
C3_FirstMatchingRule ==
    /\ (status_data.status = "COMPLETED" /\ pc \notin {"poll", "poll_wait"})
         => (completed /\ result = status_data)
    /\ (completed /\ pc # "parse") =>
         LET o == result.output IN
           /\ (o.t = "dict" /\ Truthy(o.image_url)) => image_url = o.image_url
           /\ (o.t = "dict" /\ ~Truthy(o.image_url) /\ Truthy(o.image))
                => image_url = o.image
           /\ o.t = "str" => image_url = o
           /\ (o.t = "list" /\ o.len > 0 /\ o.first.t = "str") => image_url = o.first
           /\ Truthy(image_url) => errSite # "parse"

\* an object with both fields was returned and image_url was taken
C3_Witness ==
    /\ completed
    /\ pc = "fetch"
    /\ result.output = Dict(Str(HttpUrl), Str(DataUri))
    /\ image_url = Str(HttpUrl)

\* C4: a request that succeeds has written the artifact file exactly once,
\* and a request that ends in an error has written nothing at save_path.
C4_ArtifactOnlyOnSuccess ==
    pc = "done" =>
        IF response.body.status = "success"
        THEN file.exists /\ opens = 1
        ELSE ~file.exists /\ opens = 0

\* C5: after a poll that returned FAILED or CANCELLED the response names that
\* terminal result, differs from the response to the other one and to a
\* timeout, carries the reason the server sent, and no artifact is written.
C5_FailedCarriesReason ==
    (pc = "done" /\ errSite = "loop" /\ status_data.status \in {"FAILED", "CANCELLED"}) =>
        /\ response.body.error_code = status_data.status
        /\ response # ExceptResponse(TimeoutError)
        /\ response # ExceptResponse(GenerationError(
                          StatusData(IF status_data.status = "FAILED" THEN "CANCELLED" ELSE "FAILED",
                                     Absent, status_data.error)))
        /\ status_data.error # NoKey =>
             status_data.error \in {response.body.message, response.body.user_message}
        /\ ~file.exists

\* C6: the status requests of a job are sequential, and none is issued once
\* a poll has returned a terminal status or the timeout has been raised.
C6_SequentialPolls ==
    [][polls' # polls =>
         /\ inflight = 0
         /\ inflight' = 1
         /\ status_data.status \notin TerminalStatuses
         /\ exc = NoExc]_vars

\* two polls were made and the second returned a terminal status
C6_Witness ==
    /\ pc = "done"
    /\ polls = 2
    /\ status_data.status = "CANCELLED"
    /\ inflight = 0

\* C7: a request whose submit succeeded ends the polling loop in one of
\* Completed, Failed, Cancelled, TimedOut, and in nothing else.
C7_FourTerminalStates ==
    (job_id # Absent /\ ~InLoop) =>
        LoopOutcome \in {"Completed", "Failed", "Cancelled", "TimedOut"}

\* C8: a transport failure of an external call (a request exception without
\* a response) is reported with the error code SERVICE_ERROR.
C8_TransportIsServiceError ==
    (pc = "done" /\ exc.type \in {"ConnectionError", "ChunkedEncodingError"}) =>
        response.body.error_code = "SERVICE_ERROR"

\* C9: a submit response without a job id ends the request with an error
\* that differs from the response to the other error classes, and no status
\* request is issued.
C9_MissingJobIdMalformed ==
    (pc = "done" /\ errSite = "submit" /\ exc.type = "ValueError") =>
        /\ polls = 0
        /\ response # ExceptResponse(TimeoutError)
        /\ response # ExceptResponse(GenerationError(StatusData("FAILED", Absent, NoKey)))
        /\ response.body.error_code # "UNKNOWN_ERROR"

\* C10: decoding a data-URI output issues no image request, decoding an
\* HTTP-URL output issues exactly one.
C10_FetchCount ==
    /\ fetches <= 1
    /\ (image_url.t = "str" /\ StartsWith(image_url.s, DataPrefix)) => fetches = 0
    /\ (image_url.t = "str" /\ StartsWith(image_url.s, HttpPrefix)
          /\ pc \in {"stream", "upload", "done"}) => fetches = 1

\* an HTTP URL was fetched once and the request succeeded
C10_Witness ==
    /\ pc = "done"
    /\ response.body.status = "success"
    /\ image_url = Str(HttpUrl)
    /\ fetches = 1

\* a string that is not empty and starts with neither "data:image" nor "http"
NeitherPrefix(v) ==
    /\ v.t = "str"
    /\ v.s # EmptyStr
    /\ ~StartsWith(v.s, DataPrefix)
    /\ ~StartsWith(v.s, HttpPrefix)

\* no extraction rule gives a value for the output o
NoRuleMatches(o) ==
    \/ o.t \in {"absent", "null", "num"}
    \/ o.t = "str" /\ o.s = EmptyStr
    \/ o.t = "dict" /\ ~Truthy(o.image_url) /\ ~Truthy(o.image)
    \/ o.t = "list" /\ (o.len = 0 \/ o.first.t # "str" \/ o.first.s = EmptyStr)

\* the string the rules extract from o has neither prefix
ExtractedNeitherPrefix(o) ==
    \/ o.t = "str" /\ NeitherPrefix(o)
    \/ o.t = "dict" /\ NeitherPrefix(o.image_url)
    \/ o.t = "dict" /\ ~Truthy(o.image_url) /\ NeitherPrefix(o.image)
    \/ o.t = "list" /\ o.len > 0 /\ NeitherPrefix(o.first)

C12_PollsAndDecodedBytes ==
    /\ (route = "generate" /\ completed) => polls = nonterminal + 1
    /\ (completed /\ pc \in {"upload", "done"} /\ errSite # "open") =>
         /\ result.output = Str(DataUri) =>
              file = [exists |-> TRUE, data |-> <<0, 0, 0>>]
         /\ result.output = Str(DataUriPad) =>
              file = [exists |-> TRUE, data |-> <<77, 97>>]

\* IN_PROGRESS twice, then COMPLETED with "data:image/png;base64,AAAA"
C12_Witness ==
    /\ pc = "done"
    /\ response.body.status = "success"
    /\ result.output = Str(DataUri)
    /\ nonterminal = 2
    /\ polls = 3
    /\ Len(file.data) = 3

\* C14: a status poll that fails in transport or with an HTTP error status
\* is not retried at once and is followed by the next poll tick: it does not
\* end the request; the submit, the image request and the upload are each
\* issued at most once.
C14_FailedPollWaitsForNextTick ==
    /\ submits <= 1
    /\ fetches <= 1
    /\ uploads <= 1
    /\ (errSite = "poll" /\ exc.type \in {"ConnectionError", "HTTPError"}) => pc # "done"

\* C15: upload_blob never raises: after the call the route answers success,
\* with the URL when the blob was written and with no URL otherwise.
C15_UploadNeverRaises ==
    (pc = "done" /\ uploads = 1) =>
        /\ errSite # "upload"
        /\ response.body.status = "success"
        /\ blob.exists <=> response.body.blob_url = BlobUrl

\* a request_id in the canonical form 8-4-4-4-12 of hexadecimal digits
CanonicalGuid(v) ==
    /\ v.t = "str"
    /\ Len(v.s) = 36
    /\ \A i \in 1..36 :
         IF i \in {9, 14, 19, 24} THEN v.s[i] = "-" ELSE v.s[i] \in HexChars

\* C16: a request to /generate or /convert_html_to_pdf whose request_id is
\* missing or is no canonical GUID is answered 400 and causes no submit,
\* poll, render, file write or upload.
C16_InvalidIdRejected ==
    (pc # "validate" /\ ~CanonicalGuid(rid)) =>
        /\ pc = "done"
        /\ response.http = 400
        /\ submits = 0
        /\ polls = 0
        /\ fetches = 0
        /\ renders = 0
        /\ uploads = 0
        /\ ~file.exists
        /\ ~pdf.exists

\* C17: every error response of /generate carries an error code and a user
\* message that differs from the technical message.
C17_StructuredErrors ==
    (route = "generate" /\ pc = "done" /\ response.body.status # "success") =>
        /\ response.body.error_code # NoField
        /\ response.body.user_message # NoField
        /\ response.body.user_message # response.body.message

\* C19: a valid /convert_html_to_pdf request calls the renderer exactly once
\* and never polls; upload_blob is called at most once and only after the
\* renderer returned; when the renderer raises the answer is 500 and there
\* is no upload.
C19_RenderOnceThenUpload ==
    route = "pdf" =>
        /\ submits = 0 /\ polls = 0 /\ fetches = 0
        /\ renders <= 1
        /\ uploads <= 1
        /\ pc = "pdf_upload" => renders = 1
        /\ (pc = "done" /\ (uploads = 1 \/ errSite = "render")) => renders = 1
        /\ uploads = 1 => (renders = 1 /\ pdf.exists /\ errSite # "render")
        /\ errSite = "render" => (pc = "done" /\ response.http = 500 /\ uploads = 0)

\* the renderer raised: 500 and no upload
C19_Witness ==
    /\ route = "pdf"
    /\ pc = "done"
    /\ renders = 1
    /\ errSite = "render"
    /\ response.http = 500
    /\ uploads = 0
    /\ ~blob.exists

\* the bytes of the output of the job a request submitted
OwnOutput(r) == Output(cjob[r], cout[r].form)

\* C13: for two /generate requests running concurrently, the same
\* request_id included, the blob a request uploaded holds the bytes of the
\* output of that request's own job and nothing else.
C13_OwnBytesOnly ==
    \A r \in Reqs : cuploaded[r] # NotUploaded => cuploaded[r] = OwnOutput(r)

\* what remains of C13 for requests that carry different request ids: the
\* bytes uploaded and the file the request leaves are its own
C13_DistinctIdsOwnBytes ==
    (\A r, q \in Reqs : r # q => crid[r] # crid[q]) =>
        \A r \in Reqs :
            /\ cuploaded[r] # NotUploaded => cuploaded[r] = OwnOutput(r)
            /\ cpc[r] \in {"upload", "done"} /\ cout[r] # NoOut => files[crid[r]] = OwnOutput(r)

\* C18: every status request of a request carries the id its own submit
\* returned, and no id is polled by two requests.
C18_OwnJobOnly ==
    /\ \A p \in cpolled : cjob[p[1]] # 0 /\ p[2] = cjob[p[1]]
    /\ \A p, q \in cpolled : p[1] # q[1] => p[2] # q[2]

\* both requests have submitted, and both are in the polling loop having
\* polled at least once
C18_Witness ==
    /\ \A r \in Reqs : cpc[r] = "poll" /\ cwaits[r] > 0
    /\ \A r \in Reqs : \E p \in cpolled : p[1] = r

C21_TimeoutOnlyAfterNonTerminal ==
    /\ (job_id # Absent /\ pc \notin {"poll", "poll_wait", "sleep"}) => polls >= 1
    /\ (status_data.status = "COMPLETED" /\ pc # "poll_wait") => completed
    /\ (status_data.status \in {"FAILED", "CANCELLED"} /\ pc # "poll_wait") =>
         pc = "done" /\ exc.type = "RuntimeError"
    /\ exc.type = "TimeoutError" =>
         /\ status_data.status \notin TerminalStatuses
         /\ now - t_start > MAX_WAIT
    /\ (pc = "sleep") => now - t_start <= MAX_WAIT

\* a poll returned COMPLETED more than 120 time units after polling started
\* and the request succeeded
C21_Witness ==
    /\ pc = "done"
    /\ completed
    /\ now - t_start > MAX_WAIT
    /\ response.body.status = "success"

\* the request sleeps with exactly 120 time units elapsed
C21_AtTheDeadline == pc = "sleep" /\ now - t_start = MAX_WAIT

\* C23: when upload_blob returns without a URL, /generate and
\* /convert_html_to_pdf still answer 200 with status success and a null
\* blob URL; the URL is in the response exactly when the blob was written.
C23_SuccessWithoutUrl ==
    (pc = "done" /\ uploads = 1 /\ errSite # "upload") =>
        /\ response.http = 200
        /\ response.body.status = "success"
        /\ response.body.blob_url \in {NoneStr, BlobUrl}
        /\ response.body.blob_url = NoneStr <=> ~blob.exists

\* /generate wrote the artifact, the upload returned None, the response is
\* a success without a URL
C23_Witness ==
    /\ route = "generate"
    /\ pc = "done"
    /\ file.exists
    /\ uploads = 1
    /\ ~blob.exists
    /\ response.body.status = "success"
    /\ response.body.blob_url = NoneStr

\* the same for /convert_html_to_pdf
C23_WitnessPdf ==
    /\ route = "pdf"
    /\ pc = "done"
    /\ pdf.exists
    /\ uploads = 1
    /\ response.body.status = "success"
    /\ response.body.blob_url = NoneStr

\* C28: a poll that returns a body whose status is absent or is not one of
\* COMPLETED, FAILED, CANCELLED does not end the loop unless the timeout has
\* passed: the request sleeps, and the next poll follows 2 time units later.
C28_NonTerminalKeepsPolling ==
    /\ [][(pc = "poll_wait" /\ pc' # "poll_wait" /\ errSite' # "poll"
             /\ status_data'.status \notin TerminalStatuses
             /\ now' - t_start <= MAX_WAIT)
          => pc' = "sleep"]_vars
    /\ [][pc = "sleep" => (pc' = "poll" /\ now' = now + POLL_INTERVAL)]_vars
    /\ [][(pc = "poll" /\ polls > 0) =>
             (polls' = polls + 1 /\ status_data.status \notin TerminalStatuses)]_vars

\* a poll answered without a status field, the request slept and has
\* issued its next poll
C28_Witness ==
    /\ pc = "poll_wait"
    /\ polls = 2
    /\ status_data.status = NoKey
    /\ exc = NoExc

\* the polls of a loop whose polls take no time: one at each of the elapsed
\* times 0, 2, ..., 120 and the one at 122 that times out
MaxPolls == MAX_WAIT \div POLL_INTERVAL + 2

\* C22: every /generate request that has passed validation returns a
\* response, and its polling loop issues at most 62 polls.
C22_EventuallyResponds ==
    /\ (route = "generate" /\ pc = "submit") ~> (pc = "done" /\ response # NoResponse)
    /\ [](polls <= MaxPolls)

\* a request that polled 62 times, each poll taking no time, and timed out
C22_Witness ==
    /\ pc = "done"
    /\ polls = MaxPolls
    /\ exc.type = "TimeoutError"
    /\ response # NoResponse

\* C25: every call of an MCP route or tool that has returned has recorded
\* exactly one response-time sample: the samples of app_metrics are as many
\* as the calls that have returned.
C25_OneSamplePerCall ==
    /\ Cardinality({r \in MReqs : mpc[r] = "done"}) = recorded.n
    /\ Len(app_metrics.response_times) = recorded.n

\* C24: the stdio tool run_integration_test and the web route
\* /mcp/integration, given the same request and the same outcomes of its
\* steps, produce the same tests with the same statuses and the same overall
\* status, and record the same success flag: success exactly when every
\* test passed.
C24_SurfacesAgree ==
    (istdio # NoRun /\ iweb # NoRun) =>
        /\ istdio.tests = iweb.tests
        /\ istdio.status = iweb.status
        /\ istdio.success = iweb.success
        /\ istdio.status # "error" =>
             /\ istdio.status = "success" <=> AllPassed(istdio.tests)
             /\ istdio.success <=> AllPassed(istdio.tests)
             /\ Len(istdio.tests) > 1 => ireq.is_valid

\* what remains of C24 without the recorded flag: the tests, their statuses
\* and the overall status agree, and the steps run only after a validation
\* that passed
C24_TestsAndStatusAgree ==
    (istdio # NoRun /\ iweb # NoRun) =>
        /\ istdio.tests = iweb.tests
        /\ istdio.status = iweb.status
        /\ istdio.status # "error" =>
             /\ istdio.status = "success" <=> AllPassed(istdio.tests)
             /\ Len(istdio.tests) > 1 => ireq.is_valid

\* C26: a request_id that /generate or /convert_html_to_pdf accepts is a
\* canonical GUID of 36 characters, and the path built from it is the
\* directory, those 36 characters and the extension.
C26_AcceptedIdIsCanonical ==
    gaccepted =>
        /\ CanonicalGuid(Str(grid))
        /\ Len(gpath) = Len(ImagesDir) + 36 + 4
        /\ \A i \in 1..Len(gpath) : gpath[i] # "\n"

\* what remains of C26: an accepted id is a canonical GUID, followed or not
\* by one newline
C26_CanonicalButForNewline ==
    gaccepted =>
        \/ CanonicalGuid(Str(grid))
        \/ /\ Len(grid) = 37
           /\ grid[37] = "\n"
           /\ CanonicalGuid(Str(SubSeq(grid, 1, 36)))

\* all three variables hold a value that is neither empty nor the
\* placeholder of the .env template
Configured(cfg) ==
    /\ cfg.API_TOKEN \notin {NoneStr, "", "your_runpod_api_token_here"}
    /\ cfg.BEARER_TOKEN \notin {NoneStr, "", "your_bearer_token_here"}
    /\ cfg.AZURE_CONN_STR \notin {NoneStr, "", "your_azure_connection_string_here"}

\* the /generate request was valid: a GUID and a prompt, so that the route
\* went past its two 400 answers
PastValidation ==
    /\ route = "generate"
    /\ rid.t = "str" /\ GuidMatch(rid.s)
    /\ \/ pc = "submit"
       \/ pc = "done" /\ submits = 0 /\ response.http # 400
       \/ submits > 0

\* C27: GET /health answers 200 healthy exactly when the three variables
\* are configured and 503 degraded otherwise; a valid /generate request is
\* answered 503 CONFIG_MISSING, with no submit made, exactly when /health
\* answers 503.
C27_HealthMatchesGenerate ==
    /\ health # NoHealth =>
         /\ Configured(config) => health.http = 200 /\ health.status = "healthy"
         /\ ~Configured(config) => health.http = 503 /\ health.status = "degraded"
    /\ (health # NoHealth /\ PastValidation) =>
         ((/\ pc = "done"
           /\ submits = 0
           /\ response.http = 503
           /\ response.body.error_code = "CONFIG_MISSING") <=> health.http = 503)

\* with a placeholder left in the configuration /health has answered 503
\* and the valid /generate request was rejected with CONFIG_MISSING
C27_Witness ==
    /\ health.http = 503
    /\ config.API_TOKEN = "secret"
    /\ config.BEARER_TOKEN = "your_bearer_token_here"
    /\ PastValidation
    /\ pc = "done"
    /\ response.body.error_code = "CONFIG_MISSING"

\* with the three variables configured /health has answered 200 and the
\* request has been submitted
C27_WitnessHealthy ==
    /\ health.http = 200
    /\ PastValidation
    /\ submits = 1
====
